---- MODULE Spec2Model ----
(***************************************************************************)
(* Model of admik007/iot_temperature.                                      *)
(*                                                                         *)
(*   Spec        the receiver (receiver.py): the paho on_message handler   *)
(*               and the update_loop thread sharing last_data under lock.  *)
(*   SpecSender  the sensor node (temp_sim7080g.py / temp_sim868.py): the  *)
(*               single-threaded control loop over the AT modem driver.    *)
(*                                                                         *)
(* Time is in whole seconds.  A decoded float n / d is kept as the pair    *)
(* <<n, d>>: the division by 100.0 or 10.0 of an int16 is injective, so    *)
(* equality of the pairs is equality of the floats.                        *)
(***************************************************************************)
EXTENDS Integers, Sequences, FiniteSets, TLC

(***************************************************************************)
(* Bounds of the model                                                     *)
(***************************************************************************)
\* time.time() when the receiver starts: seconds since the epoch, far more
\* than UPDATE_INTERVAL
StartTime == 1000
\* seconds of the receiver's run that are followed
MaxTime == 125
\* number of on_message calls the broker delivers
MaxMsgs == 2
\* the value at which time.ticks_ms() wraps to 0 (2^30 on the board)
TicksPeriod == 8000
\* milliseconds of one send_at call that are followed
MaxElapsed == 4000

(***************************************************************************)
(* Receiver: configuration and inputs                                      *)
(***************************************************************************)
UPDATE_INTERVAL == 60

\* handler threads and the forwarder thread
WriterSeq == << "w1", "w2" >>
Writers == { WriterSeq[i] : i \in DOMAIN WriterSeq }
Forwarder == "update_loop"

\* amounts by which time.time() advances between two steps
TickSteps == {30}

\* topics matching the subscription temperature/#, as path segments
Topics == { <<"temperature", "A">>, <<"temperature", "site", "B">> }

\* payloads: two well-formed frames (21.50, 40.0, 31.00) and
\* (-0.50, 99.9, 327.67), one short, one long
Payloads ==
  { <<8, 102, 1, 144, 12, 28>>,
    <<255, 206, 3, 231, 127, 255>>,
    <<8, 102, 1, 144, 12>>,
    <<8, 102, 1, 144, 12, 28, 0>> }

\* what requests.get can do: return a response, or raise
HttpOutcomes == {"response", "ConnectionError", "Timeout"}

NoRec == [none |-> TRUE]

VARIABLES
  clock,      \* time.time()
  last_data,  \* device id -> record, NoRec when the key is absent
  keys,       \* the keys of last_data in insertion order
  lock,       \* "free" or the thread holding threading.Lock
  ferr,       \* "none", or the exception that ended update_loop
  wpc,        \* writer -> position in on_message
  wmsg,       \* writer -> the message being handled
  wloc,       \* writer -> locals of on_message
  delivered,  \* number of on_message calls so far
  fpc,        \* position of update_loop
  now,        \* update_loop's local now
  iter,       \* update_loop's dict iterator: [pos, size]
  cur,        \* update_loop's loop variables device_id, data
  wake,       \* end of update_loop's time.sleep(1)
  sinkLog,    \* history: device id -> its last send_http call and the one before
  sweep,      \* history: registry at the sweep's start, the sweep's calls, their arguments
  written     \* history: device id -> triples stored by one on_message call

rvars == << clock, last_data, keys, lock, ferr, wpc, wmsg, wloc, delivered, fpc, now,
            iter, cur, wake, sinkLog, sweep, written >>

\* the sensor node
VARIABLES
  variant,    \* which script runs: "sim7080g" or "sim868"
  stack,      \* call stack, main() at the bottom: frames [fn, pc, i, j]
  ret,        \* value returned by the call that just ended
  rssi,       \* main's local rssi: << >> before the assignment, then << value >>
  reading,    \* main's locals temp, hum, cpu_temp
  last_sent,  \* main's locals last_temp, last_hum
  data_bytes, \* the frame handed to mqtt_publish
  cycles,     \* passes of main's while loop so far
  raises,     \* exceptions raised by the serial link so far
  crashed,    \* "no", or the function an uncaught exception came from
  pub,        \* history: attempts, mqtt_connect calls and result of a publish
  polls,      \* history: readings seen by the running nb_iot_wait_network
  cycle       \* history: the operations finished in this pass of main's loop

svars == << variant, stack, ret, rssi, reading, last_sent, data_bytes, cycles,
            raises, crashed, pub, polls, cycle >>

\* one send_at call
VARIABLES
  tpc,        \* position in send_at: "idle" while no call is followed
  ticks,      \* time.ticks_ms(): milliseconds, wrapping at TicksPeriod
  t_start,    \* send_at's local t_start
  response,   \* send_at's local response, a sequence of characters
  wire,       \* what the modem will still send for this command
  rx,         \* what has arrived and SIM_UART.any() counts
  writes,     \* history: SIM_UART.write calls of this send_at
  elapsed     \* history: milliseconds since the command was written

tvars == << tpc, ticks, t_start, response, wire, rx, writes, elapsed >>

vars == << rvars, svars, tvars >>

(***************************************************************************)
(* Receiver: pure helpers                                                  *)
(***************************************************************************)
\* msg.topic.split("/")[-1]
DeviceIdOf(topic) == topic[Len(topic)]

Devices == { DeviceIdOf(t) : t \in Topics }

\* one big-endian signed 16-bit integer of struct.unpack(">hhh", ...)
Int16BE(hi, lo) ==
  LET u == hi * 256 + lo IN IF u >= 32768 THEN u - 65536 ELSE u

\* the guard in front of the decoding: len(payload) != 6 returns early
PayloadLenOkWrong(payload) == Len(payload) = 8
PayloadLenOk(payload) == Len(payload) = 6

\* struct.unpack(">hhh", payload): struct.error unless exactly 6 bytes
Unpack(payload) ==
  IF Len(payload) # 6
  THEN [error |-> "struct.error"]
  ELSE [error |-> "none",
        temp_int |-> Int16BE(payload[1], payload[2]),
        hum_int |-> Int16BE(payload[3], payload[4]),
        cpu_int |-> Int16BE(payload[5], payload[6])]

\* temp_int / 100.0, hum_int / 10.0, cpu_int / 100.0
Decode(payload) ==
  LET u == Unpack(payload) IN
  [temp |-> <<u.temp_int, 100>>, hum |-> <<u.hum_int, 10>>,
   cpu |-> <<u.cpu_int, 100>>]

HasRec(d) == last_data[d] # NoRec

\* last_data.get(device_id, {}).get("last_http", 0)
PrevLastHttp(d) == IF HasRec(d) THEN last_data[d].last_http ELSE 0

\* the dict display stored by on_message
NewRecordWrong(loc, t) ==
  [temp |-> loc.temp, hum |-> loc.hum, cpu |-> loc.cpu, last_mqtt |-> t,
   last_http |-> t]
NewRecord(loc, t) ==
  [temp |-> loc.temp, hum |-> loc.hum, cpu |-> loc.cpu, last_mqtt |-> t,
   last_http |-> PrevLastHttp(loc.device_id)]

\* threading.Lock: acquire blocks until the lock is free
LockFreeWrong == TRUE
LockFree == lock = "free"

\* the throttle test of update_loop
Due(t, data) == t - data.last_http >= UPDATE_INTERVAL

\* last_data[device_id]["last_http"] = now
Stamp(data, t) == [data EXCEPT !.last_http = t]

\* line 15: the replacement fields of HTTP_URL_TEMPLATE
TemplateFields == {"ADDRESS", "DEVICE_ID", "CPUTEMP", "TEMP", "HUM"}
\* lines 37-42: the keyword arguments given to HTTP_URL_TEMPLATE.format
FormatArgs == {"DEVICE_ID", "TEMP", "HUM", "CPUTEMP"}
\* str.format raises KeyError for a field that has no argument
UrlFormatRaises == ~(TemplateFields \subseteq FormatArgs)

\* send_http's handler: except Exception catches whatever requests.get raises
Caught(outcome) == outcome \in HttpOutcomes

Triple(data) == <<data.temp, data.hum, data.cpu>>

NoMsg == [none |-> TRUE]
NoLoc == [none |-> TRUE]
NoCur == [none |-> TRUE]
NoSweep == [none |-> TRUE]
NoIter == [pos |-> 0, size |-> 0]
Never == 0 - 1

(***************************************************************************)
(* Receiver: initial state (module load, main() has started both threads)  *)
(***************************************************************************)
InitReceiver ==
  /\ clock = StartTime
  /\ last_data = [d \in Devices |-> NoRec]
  /\ keys = << >>
  /\ lock = "free"
  /\ ferr = "none"
  /\ wpc = [w \in Writers |-> "idle"]
  /\ wmsg = [w \in Writers |-> NoMsg]
  /\ wloc = [w \in Writers |-> NoLoc]
  /\ delivered = 0
  /\ fpc = "top"
  /\ now = 0
  /\ iter = NoIter
  /\ cur = NoCur
  /\ wake = 0
  /\ sinkLog = [d \in Devices |->
       [at |-> Never, result |-> "none", prev |-> Never]]
  /\ sweep = NoSweep
  /\ written = [d \in Devices |-> {}]

(***************************************************************************)
(* The clock                                                               *)
(***************************************************************************)
Tick(step) ==
  /\ clock + step <= StartTime + MaxTime
  /\ clock' = clock + step
  /\ UNCHANGED << ferr, last_data, keys, lock, wpc, wmsg, wloc, delivered, fpc, now,
                  iter, cur, wake, sinkLog, sweep, written,
                  svars, tvars >>

(***************************************************************************)
(* on_message                                                              *)
(***************************************************************************)
\* on_message(client, userdata, msg) is called on the lowest idle handler
\* thread (the threads are interchangeable)
OnMessage(w, topic, payload) ==
  /\ wpc[w] = "idle"
  /\ \A i, j \in DOMAIN WriterSeq :
       (WriterSeq[i] = w /\ j < i) => wpc[WriterSeq[j]] # "idle"
  /\ delivered < MaxMsgs
  /\ delivered' = delivered + 1
  /\ wmsg' = [wmsg EXCEPT ![w] = [topic |-> topic, payload |-> payload]]
  /\ wloc' = [wloc EXCEPT ![w] = NoLoc]
  /\ wpc' = [wpc EXCEPT ![w] = "decode"]
  /\ UNCHANGED << ferr, clock, last_data, keys, lock, fpc, now, iter, cur, wake,
                  sinkLog, sweep, written,
                  svars, tvars >>

\* lines 52-64: device id, length check, unpack, scale.  A wrong length
\* returns; an exception of unpack is caught by the handler's except.
WDecode(w) ==
  /\ wpc[w] = "decode"
  /\ LET payload == wmsg[w].payload
         d == DeviceIdOf(wmsg[w].topic)
     IN IF ~PayloadLenOk(payload)
        THEN /\ wpc' = [wpc EXCEPT ![w] = "idle"]
             /\ wmsg' = [wmsg EXCEPT ![w] = NoMsg]
             /\ wloc' = [wloc EXCEPT ![w] = NoLoc]
        ELSE IF Unpack(payload).error # "none"
        THEN /\ wpc' = [wpc EXCEPT ![w] = "idle"]
             /\ wmsg' = [wmsg EXCEPT ![w] = NoMsg]
             /\ wloc' = [wloc EXCEPT ![w] = NoLoc]
        ELSE /\ wpc' = [wpc EXCEPT ![w] = "acquire"]
             /\ wmsg' = wmsg
             /\ wloc' = [wloc EXCEPT ![w] =
                  [device_id |-> d,
                   temp |-> Decode(payload).temp, hum |-> Decode(payload).hum,
                   cpu |-> Decode(payload).cpu]]
  /\ UNCHANGED << ferr, clock, last_data, keys, lock, delivered, fpc, now, iter,
                  cur, wake, sinkLog, sweep, written,
                  svars, tvars >>

\* with lock:
WAcquire(w) ==
  /\ wpc[w] = "acquire"
  /\ LockFree
  /\ lock' = w
  /\ wpc' = [wpc EXCEPT ![w] = "build"]
  /\ UNCHANGED << ferr, clock, last_data, keys, wmsg, wloc, delivered, fpc, now, iter,
                  cur, wake, sinkLog, sweep, written,
                  svars, tvars >>

\* lines 67-73, right-hand side: the dict display is evaluated
WBuild(w) ==
  /\ wpc[w] = "build"
  /\ wloc' = [wloc EXCEPT ![w] =
       [device_id |-> wloc[w].device_id,
        temp |-> wloc[w].temp, hum |-> wloc[w].hum, cpu |-> wloc[w].cpu,
        rec |-> NewRecord(wloc[w], clock),
        before |-> last_data, at |-> clock]]    \* history
  /\ wpc' = [wpc EXCEPT ![w] = "store"]
  /\ UNCHANGED << ferr, clock, last_data, keys, lock, wmsg, delivered, fpc, now, iter,
                  cur, wake, sinkLog, sweep, written,
                  svars, tvars >>

\* line 67: last_data[device_id] = ...
WStore(w) ==
  /\ wpc[w] = "store"
  /\ LET d == wloc[w].device_id IN
       /\ last_data' = [last_data EXCEPT ![d] = wloc[w].rec]
       /\ keys' = IF HasRec(d) THEN keys ELSE Append(keys, d)
       /\ written' = [written EXCEPT ![d] = @ \cup {Triple(wloc[w].rec)}]
  /\ wpc' = [wpc EXCEPT ![w] = "release"]
  /\ UNCHANGED << ferr, clock, lock, wmsg, wloc, delivered, fpc, now, iter, cur, wake,
                  sinkLog, sweep,
                  svars, tvars >>

\* end of the with block, then on_message returns
WRelease(w) ==
  /\ wpc[w] = "release"
  /\ lock' = "free"
  /\ wmsg' = [wmsg EXCEPT ![w] = NoMsg]
  /\ wloc' = [wloc EXCEPT ![w] = NoLoc]
  /\ wpc' = [wpc EXCEPT ![w] = "idle"]
  /\ UNCHANGED << ferr, clock, last_data, keys, delivered, fpc, now, iter, cur,
                  wake, sinkLog, sweep, written,
                  svars, tvars >>

(***************************************************************************)
(* update_loop                                                             *)
(***************************************************************************)
\* line 83: now = time.time()
FNow ==
  /\ fpc = "top"
  /\ now' = clock
  /\ fpc' = "acquire"
  /\ UNCHANGED << ferr, clock, last_data, keys, lock, wpc, wmsg, wloc, delivered,
                  iter, cur, wake, sinkLog, sweep, written,
                  svars, tvars >>

\* line 84-85: with lock: and the iterator of last_data.items() is created
FAcquire ==
  /\ fpc = "acquire"
  /\ LockFree
  /\ lock' = Forwarder
  /\ iter' = [pos |-> 0, size |-> Len(keys)]
  /\ sweep' = [start |-> last_data, calls |-> << >>, args |-> << >>]
  /\ fpc' = "next"
  /\ UNCHANGED << ferr, clock, last_data, keys, wpc, wmsg, wloc, delivered, now, cur,
                  wake, sinkLog, written,
                  svars, tvars >>

\* line 85: the for statement asks the iterator for the next item.  A dict
\* whose size changed since the iterator was made raises RuntimeError, which
\* nothing in update_loop catches: the with block releases the lock and the
\* thread ends.
FNext ==
  /\ fpc = "next"
  /\ IF Len(keys) # iter.size
     THEN /\ fpc' = "dead"
          /\ ferr' = "RuntimeError"
          /\ lock' = "free"
          /\ UNCHANGED << iter, cur >>
     ELSE IF iter.pos >= Len(keys)
     THEN /\ fpc' = "release"
          /\ UNCHANGED << lock, ferr, iter, cur >>
     ELSE /\ fpc' = "test"
          /\ iter' = [iter EXCEPT !.pos = @ + 1]
          /\ cur' = [device_id |-> keys[iter.pos + 1],
                     data |-> last_data[keys[iter.pos + 1]]]
          /\ UNCHANGED << lock, ferr >>
  /\ UNCHANGED << clock, last_data, keys, wpc, wmsg, wloc, delivered, now, wake,
                  sinkLog, sweep, written,
                  svars, tvars >>

\* line 86: the throttle test; line 88: send_http is called when it passes
FTest ==
  /\ fpc = "test"
  /\ IF Due(now, cur.data)
     THEN /\ fpc' = "send_http"
          /\ sinkLog' = [sinkLog EXCEPT ![cur.device_id] =
               [at |-> now, result |-> "running", prev |-> @.at]]
          /\ sweep' = [sweep EXCEPT
               !.calls = Append(@, cur.device_id),
               !.args = Append(@, Triple(cur.data))]
     ELSE /\ fpc' = "next"
          /\ UNCHANGED << sinkLog, sweep >>
  /\ UNCHANGED << clock, last_data, keys, lock, ferr, wpc, wmsg, wloc, delivered,
                  now, iter, cur, wake, written,
                  svars, tvars >>

\* lines 37-47, the body of send_http, and line 89.  The URL is formatted in
\* front of the try: the KeyError of a template field without an argument
\* leaves send_http and, uncaught in update_loop, ends the thread (the with
\* block releases the lock).  Otherwise requests.get returns or raises inside
\* the try, and after the return line 89 stamps the record.
FSendHttp ==
  /\ fpc = "send_http"
  /\ IF UrlFormatRaises
     THEN /\ sinkLog' = [sinkLog EXCEPT ![cur.device_id].result = "KeyError"]
          /\ fpc' = "dead"
          /\ ferr' = "KeyError"
          /\ lock' = "free"
          /\ UNCHANGED last_data
     ELSE \E outcome \in HttpOutcomes :
            /\ sinkLog' = [sinkLog EXCEPT ![cur.device_id].result = outcome]
            /\ IF Caught(outcome)
               THEN /\ last_data' = [last_data EXCEPT ![cur.device_id] = Stamp(@, now)]
                    /\ fpc' = "next"
                    /\ UNCHANGED << lock, ferr >>
               ELSE /\ fpc' = "dead"
                    /\ ferr' = outcome
                    /\ lock' = "free"
                    /\ UNCHANGED last_data
  /\ UNCHANGED << clock, keys, wpc, wmsg, wloc, delivered, now, iter, cur, wake,
                  sweep, written,
                  svars, tvars >>

\* end of the with block; line 90: time.sleep(1) begins.  The locals of the
\* sweep are not read again before the next sweep assigns them.
FRelease ==
  /\ fpc = "release"
  /\ lock' = "free"
  /\ wake' = clock + 1
  /\ fpc' = "sleep"
  /\ now' = 0
  /\ iter' = NoIter
  /\ cur' = NoCur
  /\ sweep' = NoSweep
  /\ UNCHANGED << ferr, clock, last_data, keys, wpc, wmsg, wloc, delivered, sinkLog,
                  written,
                  svars, tvars >>

\* time.sleep(1) returns once a second has passed
FWake ==
  /\ fpc = "sleep"
  /\ clock >= wake
  /\ wake' = 0
  /\ fpc' = "top"
  /\ UNCHANGED << ferr, clock, last_data, keys, lock, wpc, wmsg, wloc, delivered, now,
                  iter, cur, sinkLog, sweep, written,
                  svars, tvars >>

(***************************************************************************)
(* Sensor node: configuration and inputs                                   *)
(***************************************************************************)
\* iterations of main's while loop that are followed
MaxCycles == 3
\* exceptions the serial link raises in one run
MaxRaises == 4
\* readings one nb_iot_wait_network call goes through
MaxPolls == 3

\* for _ in range(3)
PUBLISH_ATTEMPTS == 3

Variants == {"sim7080g", "sim868"}

\* how one send_at call ends: the response holds OK, holds ERROR, holds
\* neither when the timeout passes, or SIM_UART.write / response.decode()
\* raises
AtOutcomes == {"OK", "ERROR", "timeout", "raise"}

\* responses to AT+CSQ, character by character
CsqResponses ==
  {
    << >>,
    << "\r", "\n", "+", "C", "S", "Q", ":", " ", "1", "5", ",", "0", "\r", "\n", "\r", "\n", "O", "K", "\r", "\n" >>,
    << "+", "C", "S", "Q", ":", " ", "1", ",", "0", "\r", "\n", "O", "K" >>,
    << "+", "C", "S", "Q", ":", " ", "9", "8", ",", "0", "\r", "\n", "O", "K" >>,
    << "+", "C", "S", "Q", ":", " ", "0", ",", "0", "\r", "\n", "O", "K" >>,
    << "+", "C", "S", "Q", ":", " ", "9", "9", ",", "9", "9", "\r", "\n", "O", "K" >>,
    << "+", "C", "S", "Q", ":", " ", "1", "0", "0", ",", "0", "\r", "\n", "O", "K" >>,
    << "+", "C", "S", "Q", ":", " ", "-", "1", ",", "0", "\r", "\n", "O", "K" >>,
    << "\r", "\n", "E", "R", "R", "O", "R", "\r", "\n" >>,
    << "+", "C", "S", "Q", ":", " ", ",", "\r", "\n", "O", "K" >>
  }

None == << >>

\* dht_sensor.temperature(), dht_sensor.humidity(), read_cpu_temp(): n / d as
\* <<n, d>>.  The DHT22 gives one decimal; read_cpu_temp computes
\* 27 - (reading - 0.706) / 0.001721 and gives as many as the float holds.
Temps == { <<215, 10>>, <<216, 10>> }
Hums == { <<400, 10>>, <<405, 10>> }
CpuTemps == { <<3012, 100>>, <<31468, 1000>> }

\* what one pass reads: read_sensor gives (None, None) when the DHT22 fails
Readings ==
  [temp : Temps, hum : Hums, cpu : CpuTemps]
    \cup [temp : {None}, hum : {None}, cpu : CpuTemps]

(***************************************************************************)
(* Sensor node: pure helpers                                               *)
(***************************************************************************)
FirstIndex(s, c) ==
  CHOOSE k \in 1..Len(s) : s[k] = c /\ \A j \in 1..(k - 1) : s[j] # c

\* str.split(sep)
RECURSIVE Split(_, _)
Split(s, sep) ==
  IF \A k \in 1..Len(s) : s[k] # sep
  THEN << s >>
  ELSE LET k == FirstIndex(s, sep)
       IN << SubSeq(s, 1, k - 1) >> \o Split(SubSeq(s, k + 1, Len(s)), sep)

Whitespace == {" ", "\t", "\r", "\n"}

\* str.strip()
Strip(s) ==
  LET keep == { k \in 1..Len(s) : s[k] \notin Whitespace }
  IN IF keep = {} THEN << >>
     ELSE SubSeq(s, CHOOSE k \in keep : \A m \in keep : k <= m,
                    CHOOSE k \in keep : \A m \in keep : k >= m)

Digits == << "0", "1", "2", "3", "4", "5", "6", "7", "8", "9" >>
IsDigit(c) == \E k \in DOMAIN Digits : Digits[k] = c
DigitVal(c) == (CHOOSE k \in DOMAIN Digits : Digits[k] = c) - 1

RECURSIVE DigitsVal(_)
DigitsVal(s) ==
  IF s = << >> THEN 0
  ELSE DigitsVal(SubSeq(s, 1, Len(s) - 1)) * 10 + DigitVal(s[Len(s)])

\* int(text) of an already stripped text: ValueError unless an optional sign
\* and one or more digits
ParseInt(s) ==
  LET signed == Len(s) >= 1 /\ s[1] \in {"+", "-"}
      body == IF signed THEN SubSeq(s, 2, Len(s)) ELSE s
  IN IF body = << >> \/ \E k \in DOMAIN body : ~IsDigit(body[k])
     THEN [ok |-> FALSE, val |-> 0]
     ELSE [ok |-> TRUE,
           val |-> IF signed /\ s[1] = "-" THEN 0 - DigitsVal(body)
                   ELSE DigitsVal(body)]

\* nb_iot_check_signal, lines 38-43, on the response of AT+CSQ: the bare
\* except turns IndexError and ValueError into 0
NbIotCheckSignal(resp) ==
  LET byColon == Split(resp, ":")
  IN IF Len(byColon) < 2 THEN 0
     ELSE LET parts == Split(byColon[2], ",")
              n == ParseInt(Strip(parts[1]))
          IN IF n.ok THEN n.val ELSE 0

\* nb_iot_wait_network's exit test
AcceptsWrong(r) == r >= 0 /\ r < 99
Accepts(r) == r > 0 /\ r < 99

\* main's "network lost" test
SignalInvalidWrong(r) == r = 0
SignalInvalidAnd(r) == r = 0 /\ r = 99
SignalInvalid(r) == r = 0 \/ r = 99

\* for _ in range(3): is there an iteration after the i-th
AttemptsLeftWrong(i) == i <= PUBLISH_ATTEMPTS
AttemptsLeft(i) == i < PUBLISH_ATTEMPTS

\* the send_at calls of nb_iot_init / gprs_init
InitCmds(v) ==
  IF v = "sim7080g"
  THEN << "AT", "AT+CFUN=1", "AT+CGATT=1", "AT+CGDCONT" >>
  ELSE << "AT", "AT+CFUN=1", "AT+CGATT=1", "AT+SAPBR=3,1,CONTYPE",
          "AT+SAPBR=3,1,APN", "AT+SAPBR=1,1", "AT+SAPBR=2,1" >>

\* the send_at calls of mqtt_connect
ConnectCmds(v) ==
  IF v = "sim7080g"
  THEN << "AT+SMCONN=0", "AT+SMCONF=CLIENTID", "AT+SMCONF=URL",
          "AT+SMCONF=KEEPALIVE", "AT+SMCONN" >>
  ELSE << "AT+CMQTTDISC", "AT+CMQTTSTART", "AT+CMQTTACCQ", "AT+CMQTTCONNECT" >>

\* the statements of one attempt of mqtt_publish
PublishSteps(v) ==
  IF v = "sim7080g"
  THEN << [kind |-> "at", cmd |-> "AT+SMPUB"], [kind |-> "write", cmd |-> "data_bytes"] >>
  ELSE << [kind |-> "at", cmd |-> "AT+CMQTTTOPIC"],
          [kind |-> "at", cmd |-> "AT+CMQTTPAYLOAD"],
          [kind |-> "write", cmd |-> "data_bytes"],
          [kind |-> "at", cmd |-> "AT+CMQTTPUB"] >>

\* int(x): truncation toward zero, of n / d
Trunc(n, d) == IF n >= 0 THEN n \div d ELSE 0 - ((0 - n) \div d)

\* one ">h" of struct.pack: two bytes, high byte first
Pack16(v) == LET u == v % 65536 IN << u \div 256, u % 256 >>

\* encode_sensor: int(temp * 100), int(hum * 10), int(cpu_temp * 100), packed.
\* The products are taken exactly.
EncodeSensor(temp, hum, cpu) ==
  Pack16(Trunc(temp[1] * 100, temp[2])) \o Pack16(Trunc(hum[1] * 10, hum[2]))
    \o Pack16(Trunc(cpu[1] * 100, cpu[2]))

\* the test in front of the publish: temp or hum differs from the last sent
ChangedWrong(r, last) == r.temp # last.temp
Changed(r, last) == r.temp # last.temp \/ r.hum # last.hum

\* the assignments after the publish call: last_temp = temp, last_hum = hum,
\* whatever mqtt_publish returned
LastSentWrong(r, published, last) ==
  IF published = TRUE THEN [temp |-> r.temp, hum |-> r.hum] ELSE last
LastSent(r, published, last) == [temp |-> r.temp, hum |-> r.hum]

Frame(fn, pc) == [fn |-> fn, pc |-> pc, i |-> 1, j |-> 1]
Top == stack[Len(stack)]
Running == crashed = "no" /\ stack # << >>
At(fn, pc) == Running /\ Top.fn = fn /\ Top.pc = pc
SetTop(f) == [stack EXCEPT ![Len(stack)] = f]
\* the caller goes on at cont once the callee has returned
Call(cont, callee, entry) == Append(SetTop([Top EXCEPT !.pc = cont]), Frame(callee, entry))
Return == SubSeq(stack, 1, Len(stack) - 1)

NoPub == [attempts |-> 0, connects |-> 0, result |-> "none", bad |-> FALSE]
NoCycle == [ops |-> << >>]

(***************************************************************************)
(* Sensor node: initial state, the script is about to be loaded            *)
(***************************************************************************)
InitSender(v) ==
  /\ variant = v
  /\ stack = << Frame("module", "load") >>
  /\ ret = None
  /\ rssi = None
  /\ reading = None
  /\ last_sent = None
  /\ data_bytes = None
  /\ cycles = 0
  /\ raises = 0
  /\ crashed = "no"
  /\ pub = NoPub
  /\ polls = << >>
  /\ cycle = NoCycle


(***************************************************************************)
(* The serial link's exceptions                                            *)
(***************************************************************************)
\* an exception nothing catches ends the script
Uncaught(fn) ==
  /\ crashed' = fn
  /\ stack' = << >>

MayRaise == raises < MaxRaises

(***************************************************************************)
(* nb_iot_init / gprs_init                                                 *)
(***************************************************************************)
\* one send_at of the init sequence; its response is not looked at
SInit(outcome) ==
  /\ Running /\ Top.fn = "init"
  /\ Top.i <= Len(InitCmds(variant))
  /\ IF outcome = "raise"
     THEN /\ MayRaise
          /\ raises' = raises + 1
          /\ Uncaught("init")
     ELSE /\ stack' = SetTop([Top EXCEPT !.i = @ + 1])
          /\ UNCHANGED << raises, crashed >>
  /\ UNCHANGED << variant, ret, rssi, reading, last_sent, data_bytes, cycles,
                  pub, polls, cycle, rvars, tvars >>

SInitReturn ==
  /\ Running /\ Top.fn = "init"
  /\ Top.i > Len(InitCmds(variant))
  /\ stack' = Return
  /\ cycle' = [cycle EXCEPT !.ops = Append(@, "init")]
  /\ UNCHANGED << variant, ret, rssi, reading, last_sent, data_bytes, cycles,
                  raises, crashed, pub, polls, rvars, tvars >>

(***************************************************************************)
(* nb_iot_check_signal                                                     *)
(***************************************************************************)
\* send_at("AT+CSQ") returns resp, which is parsed
SCheckSignal(resp) ==
  /\ At("check_signal", "send")
  /\ ret' = NbIotCheckSignal(resp)
  /\ stack' = Return
  /\ UNCHANGED << variant, rssi, reading, last_sent, data_bytes, cycles, raises,
                  crashed, pub, polls, cycle, rvars, tvars >>

\* send_at("AT+CSQ") raises: the call stands in front of the try
SCheckSignalRaise ==
  /\ At("check_signal", "send")
  /\ MayRaise
  /\ raises' = raises + 1
  /\ Uncaught("check_signal")
  /\ UNCHANGED << variant, ret, rssi, reading, last_sent, data_bytes, cycles,
                  pub, polls, cycle, rvars, tvars >>

(***************************************************************************)
(* nb_iot_wait_network                                                     *)
(***************************************************************************)
\* line 56: rssi = nb_iot_check_signal(), the call
SWaitPoll ==
  /\ At("wait_network", "poll")
  /\ stack' = Call("test", "check_signal", "send")
  /\ UNCHANGED << variant, ret, rssi, reading, last_sent, data_bytes, cycles,
                  raises, crashed, pub, polls, cycle, rvars, tvars >>

\* lines 56-59: the assignment to the function's own rssi, kept as the last
\* entry of polls, and the exit test
SWaitTest ==
  /\ At("wait_network", "test")
  /\ ret' = None
  /\ polls' = Append(polls, ret)
  /\ IF Accepts(ret)
     THEN /\ stack' = Return
          /\ cycle' = [cycle EXCEPT !.ops = Append(@, "wait_network")]
     ELSE /\ stack' = SetTop([Top EXCEPT !.pc = "sleep"])
          /\ UNCHANGED cycle
  /\ UNCHANGED << variant, rssi, reading, last_sent, data_bytes, cycles, raises,
                  crashed, pub, rvars, tvars >>

\* line 61: time.sleep(5), then the loop starts over
SWaitSleep ==
  /\ At("wait_network", "sleep")
  /\ Len(polls) < MaxPolls
  /\ stack' = SetTop([Top EXCEPT !.pc = "poll"])
  /\ UNCHANGED << variant, ret, rssi, reading, last_sent, data_bytes, cycles,
                  raises, crashed, pub, polls, cycle, rvars, tvars >>

(***************************************************************************)
(* mqtt_connect                                                            *)
(***************************************************************************)
\* one send_at of the connect sequence, inside the try
SConnect(outcome) ==
  /\ At("mqtt_connect", "try")
  /\ Top.i <= Len(ConnectCmds(variant))
  /\ IF outcome = "raise"
     THEN /\ MayRaise
          /\ raises' = raises + 1
          /\ stack' = SetTop([Top EXCEPT !.pc = "except"])
     ELSE /\ stack' = SetTop([Top EXCEPT !.i = @ + 1])
          /\ UNCHANGED raises
  /\ UNCHANGED << variant, ret, rssi, reading, last_sent, data_bytes, cycles,
                  crashed, pub, polls, cycle, rvars, tvars >>

\* except: time.sleep(5), and the while loop runs the sequence again
SConnectRetry ==
  /\ At("mqtt_connect", "except")
  /\ stack' = SetTop([Top EXCEPT !.pc = "try", !.i = 1])
  /\ UNCHANGED << variant, ret, rssi, reading, last_sent, data_bytes, cycles,
                  raises, crashed, pub, polls, cycle, rvars, tvars >>

\* the sequence went through without raising: return
SConnectReturn ==
  /\ At("mqtt_connect", "try")
  /\ Top.i > Len(ConnectCmds(variant))
  /\ stack' = Return
  /\ cycle' = [cycle EXCEPT !.ops = Append(@, "mqtt_connect")]
  /\ UNCHANGED << variant, ret, rssi, reading, last_sent, data_bytes, cycles,
                  raises, crashed, pub, polls, rvars, tvars >>

(***************************************************************************)
(* mqtt_publish: frame field i is the attempt, j the statement in it       *)
(***************************************************************************)
\* one statement of the try block: a send_at or the SIM_UART.write of the
\* payload.  Only an exception leaves the block; the text send_at returns is
\* not looked at.
SPublish(outcome) ==
  /\ At("mqtt_publish", "try")
  /\ Top.j <= Len(PublishSteps(variant))
  /\ PublishSteps(variant)[Top.j].kind = "write" => outcome \in {"OK", "raise"}
  /\ IF outcome = "raise"
     THEN /\ MayRaise
          /\ raises' = raises + 1
          /\ stack' = SetTop([Top EXCEPT !.pc = "except"])
          /\ UNCHANGED pub
     ELSE /\ stack' = SetTop([Top EXCEPT !.j = @ + 1])
          /\ pub' = [pub EXCEPT !.bad = @ \/ outcome \in {"ERROR", "timeout"}]
          /\ UNCHANGED raises
  /\ UNCHANGED << variant, ret, rssi, reading, last_sent, data_bytes, cycles,
                  crashed, polls, cycle, rvars, tvars >>

\* return True
SPublishReturnTrue ==
  /\ At("mqtt_publish", "try")
  /\ Top.j > Len(PublishSteps(variant))
  /\ ret' = TRUE
  /\ stack' = Return
  /\ pub' = [pub EXCEPT !.result = "True"]
  /\ UNCHANGED << variant, rssi, reading, last_sent, data_bytes, cycles, raises,
                  crashed, polls, cycle, rvars, tvars >>

\* except: mqtt_connect() is called
SPublishExcept ==
  /\ At("mqtt_publish", "except")
  /\ stack' = Call("backoff", "mqtt_connect", "try")
  /\ pub' = [pub EXCEPT !.connects = @ + 1]
  /\ UNCHANGED << variant, ret, rssi, reading, last_sent, data_bytes, cycles,
                  raises, crashed, polls, cycle, rvars, tvars >>

\* time.sleep(2), then the for loop's next iteration, if there is one
SPublishBackoff ==
  /\ At("mqtt_publish", "backoff")
  /\ IF AttemptsLeft(Top.i)
     THEN /\ stack' = SetTop([Top EXCEPT !.pc = "try", !.i = @ + 1, !.j = 1])
          /\ pub' = [pub EXCEPT !.attempts = @ + 1, !.bad = FALSE]
     ELSE /\ stack' = SetTop([Top EXCEPT !.pc = "exhausted"])
          /\ UNCHANGED pub
  /\ UNCHANGED << variant, ret, rssi, reading, last_sent, data_bytes, cycles,
                  raises, crashed, polls, cycle, rvars, tvars >>

\* return False
SPublishReturnFalse ==
  /\ At("mqtt_publish", "exhausted")
  /\ ret' = FALSE
  /\ stack' = Return
  /\ pub' = [pub EXCEPT !.result = "False"]
  /\ UNCHANGED << variant, rssi, reading, last_sent, data_bytes, cycles, raises,
                  crashed, polls, cycle, rvars, tvars >>

(***************************************************************************)
(* main                                                                    *)
(***************************************************************************)
\* the module-level statements, then main().  DEVICE_ID is computed from
\* machine.unique_id() while the script imports only names from machine: the
\* name machine is bound only if the board's boot.py, which runs in the same
\* namespace, has imported it; otherwise the NameError ends the script.
MLoad(machineBound) ==
  /\ At("module", "load")
  /\ IF machineBound
     THEN /\ stack' = << Frame("main", "start") >>
          /\ UNCHANGED crashed
     ELSE Uncaught("module")
  /\ UNCHANGED << variant, ret, rssi, reading, last_sent, data_bytes, cycles,
                  raises, pub, polls, cycle, rvars, tvars >>

\* nb_iot_init() / gprs_init()
MStart ==
  /\ At("main", "start")
  /\ stack' = Call(IF variant = "sim7080g" THEN "start_wait" ELSE "start_connect",
                   "init", "run")
  /\ UNCHANGED << variant, ret, rssi, reading, last_sent, data_bytes, cycles,
                  raises, crashed, pub, polls, cycle, rvars, tvars >>

\* nb_iot_wait_network(), sim7080g only
MStartWait ==
  /\ At("main", "start_wait")
  /\ stack' = Call("start_connect", "wait_network", "poll")
  /\ polls' = << >>
  /\ UNCHANGED << variant, ret, rssi, reading, last_sent, data_bytes, cycles,
                  raises, crashed, pub, cycle, rvars, tvars >>

\* mqtt_connect()
MStartConnect ==
  /\ At("main", "start_connect")
  /\ stack' = Call("locals", "mqtt_connect", "try")
  /\ polls' = << >>
  /\ UNCHANGED << variant, ret, rssi, reading, last_sent, data_bytes, cycles,
                  raises, crashed, pub, cycle, rvars, tvars >>

\* last_temp = None, last_hum = None.  sim7080g also keeps last_cpu, which
\* it assigns here and on line 159 and never reads.
MLocals ==
  /\ At("main", "locals")
  /\ last_sent' = [temp |-> None, hum |-> None]
  /\ stack' = SetTop([Top EXCEPT !.pc = "loop"])
  /\ UNCHANGED << variant, ret, rssi, reading, data_bytes, cycles, raises,
                  crashed, pub, polls, cycle, rvars, tvars >>

\* top of while True: sim7080g calls nb_iot_check_signal(), sim868 goes
\* straight to the sensor
MLoop ==
  /\ At("main", "loop")
  /\ cycles < MaxCycles
  /\ cycles' = cycles + 1
  /\ cycle' = NoCycle
  /\ rssi' = None
  /\ stack' = IF variant = "sim7080g"
              THEN Call("signal", "check_signal", "send")
              ELSE SetTop([Top EXCEPT !.pc = "read"])
  /\ UNCHANGED << variant, ret, reading, last_sent, data_bytes, raises,
                  crashed, pub, polls, rvars, tvars >>

\* lines 139-140: rssi = ..., if rssi == 0 or rssi == 99
MSignal ==
  /\ At("main", "signal")
  /\ rssi' = << ret >>
  /\ ret' = None
  /\ stack' = SetTop([Top EXCEPT !.pc =
                 IF SignalInvalid(ret) THEN "rebuild_init" ELSE "read"])
  /\ UNCHANGED << variant, reading, last_sent, data_bytes, cycles, raises,
                  crashed, pub, polls, cycle, rvars, tvars >>

\* line 142: nb_iot_init()
MRebuildInit ==
  /\ At("main", "rebuild_init")
  /\ stack' = Call("rebuild_wait", "init", "run")
  /\ UNCHANGED << variant, ret, rssi, reading, last_sent, data_bytes, cycles,
                  raises, crashed, pub, polls, cycle, rvars, tvars >>

\* line 143: nb_iot_wait_network()
MRebuildWait ==
  /\ At("main", "rebuild_wait")
  /\ stack' = Call("rebuild_connect", "wait_network", "poll")
  /\ polls' = << >>
  /\ UNCHANGED << variant, ret, rssi, reading, last_sent, data_bytes, cycles,
                  raises, crashed, pub, cycle, rvars, tvars >>

\* line 144: mqtt_connect()
MRebuildConnect ==
  /\ At("main", "rebuild_connect")
  /\ stack' = Call("read", "mqtt_connect", "try")
  /\ polls' = << >>
  /\ UNCHANGED << variant, ret, rssi, reading, last_sent, data_bytes, cycles,
                  raises, crashed, pub, cycle, rvars, tvars >>

\* read_sensor(), read_cpu_temp() and the None test
MRead(r) ==
  /\ At("main", "read")
  /\ reading' = r
  /\ cycle' = [cycle EXCEPT !.ops = Append(@, "read")]
  /\ stack' = SetTop([Top EXCEPT !.pc =
                 IF r.temp = None \/ r.hum = None \/ r.cpu = None
                 THEN "sleep" ELSE "compare"])
  /\ UNCHANGED << variant, ret, rssi, last_sent, data_bytes, cycles, raises,
                  crashed, pub, polls, rvars, tvars >>

\* the change test; encode_sensor and the call of mqtt_publish when it passes
MCompare ==
  /\ At("main", "compare")
  /\ IF Changed(reading, last_sent)
     THEN /\ data_bytes' = EncodeSensor(reading.temp, reading.hum, reading.cpu)
          /\ stack' = Call("sent", "mqtt_publish", "try")
          /\ pub' = [attempts |-> 1, connects |-> 0, result |-> "running",
                     bad |-> FALSE]
          /\ cycle' = [cycle EXCEPT !.ops = Append(@, "publish")]
     ELSE /\ stack' = SetTop([Top EXCEPT !.pc = "sleep"])
          /\ UNCHANGED << data_bytes, pub, cycle >>
  /\ UNCHANGED << variant, ret, rssi, reading, last_sent, cycles, raises,
                  crashed, polls, rvars, tvars >>

\* last_temp = temp, last_hum = hum; what mqtt_publish returned is dropped
MSent ==
  /\ At("main", "sent")
  /\ last_sent' = LastSent(reading, ret, last_sent)
  /\ ret' = None
  /\ stack' = SetTop([Top EXCEPT !.pc = "sleep"])
  /\ UNCHANGED << variant, rssi, reading, data_bytes, cycles, raises,
                  crashed, pub, polls, cycle, rvars, tvars >>

\* time.sleep(CHECK_INTERVAL), back to the top of the loop; the next pass
\* assigns temp, hum, cpu_temp and data_bytes before it reads them
MSleep ==
  /\ At("main", "sleep")
  /\ stack' = SetTop([Top EXCEPT !.pc = "loop"])
  /\ reading' = None
  /\ data_bytes' = None
  /\ pub' = NoPub
  /\ UNCHANGED << variant, ret, rssi, last_sent, cycles, raises, crashed,
                  polls, cycle, rvars, tvars >>

(***************************************************************************)
(* send_at, statement by statement                                         *)
(***************************************************************************)
\* timeout=2000, the default of send_at
SendAtTimeout == 2000

\* what the modem sends after a command: nothing, an answer with OK, one
\* with ERROR, text with neither marker, a byte that is not UTF-8
ModemReplies ==
  { << >>,
    << "\r", "O", "K", "\r" >>,
    << "E", "R", "R", "O", "R" >>,
    << "+", "C", "S", "Q" >>,
    << "0xFF" >> }

\* by how much ticks_ms() has advanced when time.sleep(0.1) is over and the
\* loop test is evaluated again
SleepSteps == {500, 1000}

\* ticks_ms() at the time of the call: anywhere in its period
StartTicks == {0, TicksPeriod - 1000}

\* b"OK" in response
Contains(buf, marker) ==
  \E k \in 1..(Len(buf) - Len(marker) + 1) :
    SubSeq(buf, k, k + Len(marker) - 1) = marker

\* if b"OK" in response or b"ERROR" in response
MarkerSeen(buf) ==
  Contains(buf, << "O", "K" >>) \/ Contains(buf, << "E", "R", "R", "O", "R" >>)

\* while time.ticks_ms() - t_start < timeout: a plain subtraction of two
\* readings of the wrapping counter
LoopGoesOn(t, start) == t - start < SendAtTimeout

\* response.decode(): UnicodeError on a byte sequence that is not UTF-8
Decodes(buf) == \A k \in DOMAIN buf : buf[k] # "0xFF"

IdleSendAt ==
  /\ tpc = "idle"
  /\ ticks = 0
  /\ t_start = 0
  /\ response = << >>
  /\ wire = << >>
  /\ rx = << >>
  /\ writes = 0
  /\ elapsed = 0

\* send_at(cmd) has just been called
InitSendAt ==
  /\ tpc = "write"
  /\ ticks \in StartTicks
  /\ t_start = 0
  /\ response = << >>
  /\ wire \in ModemReplies
  /\ rx = << >>
  /\ writes = 0
  /\ elapsed = 0

\* line 25: SIM_UART.write(cmd + "\r\n")
TWrite ==
  /\ tpc = "write"
  /\ writes' = writes + 1
  /\ tpc' = "start"
  /\ UNCHANGED << ticks, t_start, response, wire, rx, elapsed, rvars, svars >>

\* lines 26-27: t_start = time.ticks_ms(), response = b""
TStart ==
  /\ tpc = "start"
  /\ t_start' = ticks
  /\ response' = << >>
  /\ tpc' = "test"
  /\ UNCHANGED << ticks, wire, rx, writes, elapsed, rvars, svars >>

\* the modem's characters arrive, some at a time
TModem(k) ==
  /\ tpc \notin {"idle", "write", "returned", "raised"}
  /\ k \in 1..Len(wire)
  /\ rx' = rx \o SubSeq(wire, 1, k)
  /\ wire' = SubSeq(wire, k + 1, Len(wire))
  /\ UNCHANGED << tpc, ticks, t_start, response, writes, elapsed, rvars, svars >>

\* line 28: the loop test
TTest ==
  /\ tpc = "test"
  /\ tpc' = IF LoopGoesOn(ticks, t_start) THEN "drain" ELSE "return"
  /\ UNCHANGED << ticks, t_start, response, wire, rx, writes, elapsed, rvars, svars >>

\* lines 29-30: if SIM_UART.any(): response += SIM_UART.read(SIM_UART.any())
TDrain ==
  /\ tpc = "drain"
  /\ response' = response \o rx
  /\ rx' = << >>
  /\ tpc' = "check"
  /\ UNCHANGED << ticks, t_start, wire, writes, elapsed, rvars, svars >>

\* lines 31-32: break once a marker is in the buffer
TCheck ==
  /\ tpc = "check"
  /\ tpc' = IF MarkerSeen(response) THEN "return" ELSE "sleep"
  /\ UNCHANGED << ticks, t_start, response, wire, rx, writes, elapsed, rvars, svars >>

\* line 33: time.sleep(0.1)
TSleep(step) ==
  /\ tpc = "sleep"
  /\ elapsed < MaxElapsed
  /\ ticks' = (ticks + step) % TicksPeriod
  /\ elapsed' = elapsed + step
  /\ tpc' = "test"
  /\ UNCHANGED << t_start, response, wire, rx, writes, rvars, svars >>

\* line 34: return response.decode()
TReturn ==
  /\ tpc = "return"
  /\ tpc' = IF Decodes(response) THEN "returned" ELSE "raised"
  /\ UNCHANGED << ticks, t_start, response, wire, rx, writes, elapsed, rvars, svars >>

(***************************************************************************)
(* Specifications                                                          *)
(***************************************************************************)
Next ==
  \/ \E step \in TickSteps : Tick(step)
  \/ \E w \in Writers, topic \in Topics, payload \in Payloads :
       OnMessage(w, topic, payload)
  \/ \E w \in Writers : WDecode(w)
  \/ \E w \in Writers : WAcquire(w)
  \/ \E w \in Writers : WBuild(w)
  \/ \E w \in Writers : WStore(w)
  \/ \E w \in Writers : WRelease(w)
  \/ FNow
  \/ FAcquire
  \/ FNext
  \/ FTest
  \/ FSendHttp
  \/ FRelease
  \/ FWake

\* the receiver process; the sensor node's variables are not part of it
Init == InitReceiver /\ InitSender("sim7080g") /\ IdleSendAt

Spec == Init /\ [][Next]_vars


NextSender ==
  \/ \E machineBound \in BOOLEAN : MLoad(machineBound)
  \/ \E outcome \in AtOutcomes : SInit(outcome)
  \/ SInitReturn
  \/ \E resp \in CsqResponses : SCheckSignal(resp)
  \/ SCheckSignalRaise
  \/ SWaitPoll
  \/ SWaitTest
  \/ SWaitSleep
  \/ \E outcome \in AtOutcomes : SConnect(outcome)
  \/ SConnectRetry
  \/ SConnectReturn
  \/ \E outcome \in AtOutcomes : SPublish(outcome)
  \/ SPublishReturnTrue
  \/ SPublishExcept
  \/ SPublishBackoff
  \/ SPublishReturnFalse
  \/ MStart
  \/ MStartWait
  \/ MStartConnect
  \/ MLocals
  \/ MLoop
  \/ MSignal
  \/ MRebuildInit
  \/ MRebuildWait
  \/ MRebuildConnect
  \/ \E r \in Readings : MRead(r)
  \/ MCompare
  \/ MSent
  \/ MSleep

\* the sensor node, running either script; the receiver is not part of it
InitNode == InitReceiver /\ (\E v \in Variants : InitSender(v)) /\ IdleSendAt

SpecSender == InitNode /\ [][NextSender]_vars

NextSendAt ==
  \/ TWrite
  \/ TStart
  \/ \E k \in 1..Len(wire) : TModem(k)
  \/ TTest
  \/ TDrain
  \/ TCheck
  \/ \E step \in SleepSteps : TSleep(step)
  \/ TReturn

\* one send_at call of the sensor node, on its own
InitCall == InitReceiver /\ InitSender("sim7080g") /\ InitSendAt

SpecSendAt == InitCall /\ [][NextSendAt]_vars

(***************************************************************************)
(* Claims about the receiver                                               *)
(***************************************************************************)
CountIn(seq, x) == Cardinality({ i \in DOMAIN seq : seq[i] = x })

\* the sweep is over: every item was visited, or an exception ended it
SweepEnded == fpc \in {"release", "dead"}

\* the send_http call for d did not come back with a response
SinkFailed(d) == sinkLog[d].result \notin {"none", "running", "response"}

Due60(d) ==
  sweep.start[d] # NoRec /\ now - sweep.start[d].last_http >= UPDATE_INTERVAL

\* C1: for every device, two successive send_http calls of update_loop are
\* at least UPDATE_INTERVAL apart in update_loop's sampled now, whatever
\* on_message did in between.  (No device is ever pushed twice: the first
\* send_http call ends update_loop, so no state exercises the implication.)
C1_Throttle ==
  \A d \in Devices :
    sinkLog[d].prev # Never => sinkLog[d].at - sinkLog[d].prev >= UPDATE_INTERVAL

\* C2: when a sweep at time now is over, send_http was called exactly once
\* for each device whose record had now - last_http >= UPDATE_INTERVAL at the
\* sweep's start and not at all for any other device, with the device's
\* latest recorded temp, hum, cpu, and the device's last_http is now.
C2_Sweep ==
  SweepEnded =>
    /\ \A d \in Devices :
         CountIn(sweep.calls, d) = IF Due60(d) THEN 1 ELSE 0
    /\ \A i \in DOMAIN sweep.calls :
         /\ sweep.args[i] = Triple(last_data[sweep.calls[i]])
         /\ last_data[sweep.calls[i]].last_http = now

\* C3: the store of on_message replaces the device's temp, hum, cpu and
\* last_mqtt, keeps its last_http (0 when the device had no record) and leaves
\* every other device's record as it was.
C3_RecordFrame ==
  \A w \in Writers :
    wpc[w] = "release" =>
      LET d == wloc[w].device_id
          old == wloc[w].before
          v == Decode(wmsg[w].payload)
      IN last_data =
           [old EXCEPT ![d] =
              [temp |-> v.temp, hum |-> v.hum, cpu |-> v.cpu,
               last_mqtt |-> wloc[w].at,
               last_http |-> IF old[d] = NoRec THEN 0 ELSE old[d].last_http]]

\* a device's record is replaced, later, by one with other values
C3_Witness ==
  \E w \in Writers :
    /\ wpc[w] = "release"
    /\ wloc[w].before[wloc[w].device_id] # NoRec
    /\ wloc[w].before[wloc[w].device_id].last_mqtt < wloc[w].at
    /\ Triple(wloc[w].before[wloc[w].device_id]) # Triple(wloc[w].rec)

\* C4: on_message records a message exactly when its payload has 6 bytes: any
\* other length returns from the decoding step with last_data unchanged, a
\* 6-byte payload goes on to the store, and only the store of a 6-byte
\* payload ever changes which values a device holds.
C4_LengthGate ==
  [][ \A w \in Writers :
        /\ (wpc[w] = "decode" /\ wpc'[w] # "decode") =>
             IF Len(wmsg[w].payload) = 6
             THEN wpc'[w] = "acquire"
             ELSE wpc'[w] = "idle" /\ last_data' = last_data /\ keys' = keys
        /\ (wpc[w] = "store" /\ wpc'[w] # "store") =>
             /\ Len(wmsg[w].payload) = 6
             /\ last_data'[wloc[w].device_id] # NoRec
             /\ Triple(last_data'[wloc[w].device_id]) =
                  Triple(Decode(wmsg[w].payload))
    ]_vars

\* one message was stored while the other, already handled, left no record
C4_Witness ==
  /\ delivered = 2
  /\ wpc["w1"] = "release"
  /\ wpc["w2"] = "idle"
  /\ \A d \in Devices : wloc["w1"].before[d] = NoRec
  /\ \A d \in Devices : d # wloc["w1"].device_id => ~HasRec(d)

\* C5: update_loop does not hold the lock while send_http runs.
C5_NoLockDuringHttp == fpc = "send_http" => lock # Forwarder

InCritical(w) == wpc[w] \in {"build", "store", "release"}
Iterating == fpc \in {"next", "test", "send_http", "release"}

\* C6: every triple passed to send_http for a device is the triple stored by
\* one on_message call for that device, update_loop never iterates last_data
\* while a handler is inside its with block, and the iteration never fails
\* with the dict having changed size.
C6_NoTornRead ==
  /\ sweep # NoSweep =>
       \A i \in DOMAIN sweep.calls : sweep.args[i] \in written[sweep.calls[i]]
  /\ ~(Iterating /\ \E w \in Writers : InCritical(w))
  /\ \A v, w \in Writers : (InCritical(v) /\ InCritical(w)) => v = w
  /\ ferr # "RuntimeError"

\* send_http runs for a device while a handler for that device waits for the lock
C6_Witness ==
  /\ fpc = "send_http"
  /\ \E w \in Writers : wpc[w] = "acquire" /\ wloc[w].device_id = cur.device_id

\* C7: a failed send_http does not end update_loop, the device's last_http is
\* still set to the sweep's now, the next push of that device is a full
\* interval later, and the other due devices of the sweep are still pushed.
C7_SinkFailure ==
  /\ \A d \in Devices :
       SinkFailed(d) =>
         /\ ferr = "none"
         /\ HasRec(d)
         /\ last_data[d].last_http = sinkLog[d].at
  /\ \A d \in Devices :
       sinkLog[d].prev # Never => sinkLog[d].at - sinkLog[d].prev >= UPDATE_INTERVAL
  /\ (SweepEnded /\ \E i \in DOMAIN sweep.calls : SinkFailed(sweep.calls[i]))
       => \A d \in Devices : Due60(d) => CountIn(sweep.calls, d) = 1

(***************************************************************************)
(* Claims about the sensor node                                            *)
(***************************************************************************)
OnStack(fn) == \E k \in DOMAIN stack : stack[k].fn = fn

\* C8: mqtt_publish makes at most 3 attempts and calls mqtt_connect once
\* after each failed one: it returns True after k attempts with k - 1
\* mqtt_connect calls, returns False after 3 failed attempts with 3
\* mqtt_connect calls, and no exception leaves it.
C8_PublishRetry ==
  /\ pub.result = "running" =>
       /\ pub.attempts \in 1..3
       /\ pub.connects \in {pub.attempts - 1, pub.attempts}
  /\ pub.result = "True" =>
       /\ pub.attempts \in 1..3
       /\ pub.connects = pub.attempts - 1
       /\ At("main", "sent") => ret = TRUE
  /\ pub.result = "False" =>
       /\ pub.attempts = 3
       /\ pub.connects = 3
       /\ At("main", "sent") => ret = FALSE
  /\ crashed \notin {"mqtt_publish", "mqtt_connect"}

\* all three attempts failed and mqtt_publish has returned False
C8_Witness ==
  /\ At("main", "sent")
  /\ pub.result = "False"
  /\ pub.connects = 3

WaitReturned ==
  variant = "sim7080g"
    /\ (At("main", "start_connect") \/ At("main", "rebuild_connect"))

\* C9: nb_iot_wait_network returns only right after a reading r with
\* 0 < r < 99; every other reading (0, 99, a parse failure's 0, anything
\* outside) is followed by another poll, so while it runs no reading it has
\* tested was inside (0, 99).
C9_WaitForNetwork ==
  /\ OnStack("wait_network") =>
       \A k \in DOMAIN polls : ~(polls[k] > 0 /\ polls[k] < 99)
  /\ WaitReturned =>
       /\ Len(polls) >= 1
       /\ polls[Len(polls)] > 0 /\ polls[Len(polls)] < 99
       /\ \A k \in 1..(Len(polls) - 1) : ~(polls[k] > 0 /\ polls[k] < 99)

\* it polled through a 0 and a 99 and returned on 15
C9_Witness ==
  /\ WaitReturned
  /\ polls = << 0, 99, 15 >>

RebuildOps == << "init", "wait_network", "mqtt_connect" >>
Rebuilt == Len(cycle.ops) >= 3 /\ SubSeq(cycle.ops, 1, 3) = RebuildOps

\* C10: in a pass of the sim7080g loop whose signal reading is 0 or 99,
\* init, wait_network and mqtt_connect finish, in that order, before the
\* sensor is read or a publish is started.
C10_RebuildFirst ==
  (variant = "sim7080g" /\ rssi \in { << 0 >>, << 99 >> }) =>
    /\ \A k \in DOMAIN cycle.ops :
         /\ k <= 3 => cycle.ops[k] = RebuildOps[k]
         /\ cycle.ops[k] \in {"read", "publish"} => k > 3
    /\ (OnStack("mqtt_publish")
          \/ \E pc \in {"read", "compare", "sent", "sleep"} : At("main", pc))
         => Rebuilt

\* a pass that began with an invalid reading has rebuilt and published
C10_Witness ==
  /\ variant = "sim7080g"
  /\ rssi \in { << 0 >>, << 99 >> }
  /\ At("main", "sent")
  /\ pub.result = "True"
  /\ \E k \in DOMAIN cycle.ops : cycle.ops[k] = "publish"

\* C11: both scripts run the same session state machine: whenever main is
\* about to read the sensor, the signal quality was checked in this pass, and
\* an invalid reading (0 or 99) was followed by init, wait_network and
\* mqtt_connect.
C11_SameStateMachine ==
  At("main", "read") =>
    /\ rssi # None
    /\ (rssi # None /\ rssi[1] \in {0, 99}) => Rebuilt

\* C12: in a pass whose sensor read succeeded, mqtt_publish is called exactly
\* when temp or hum differs from the values kept at the last publish call
\* (None before the first one); cpu_temp has no part in the test, and the
\* kept values change only right after a publish call, to that pass's
\* temp and hum.
C12_ChangeSuppression ==
  [][ /\ At("main", "compare") =>
           ((OnStack("mqtt_publish"))' <=>
              (reading.temp # last_sent.temp \/ reading.hum # last_sent.hum))
      /\ (At("main", "compare") /\ ~(OnStack("mqtt_publish"))') =>
           (At("main", "sleep"))'
      /\ (last_sent # None /\ last_sent' # last_sent) =>
           /\ At("main", "sent")
           /\ "publish" \in { cycle.ops[k] : k \in DOMAIN cycle.ops }
           /\ last_sent' = [temp |-> reading.temp, hum |-> reading.hum]
    ]_vars

\* a publish was made for a reading whose humidity alone had changed
C12_Witness ==
  /\ At("main", "sent")
  /\ last_sent.temp = reading.temp
  /\ last_sent.hum # reading.hum

\* a reading with the temperature and humidity of the last publish is passed over
C12_WitnessSuppressed ==
  /\ At("main", "sleep")
  /\ reading # None
  /\ reading.temp = last_sent.temp
  /\ reading.hum = last_sent.hum
  /\ \A k \in DOMAIN cycle.ops : cycle.ops[k] # "publish"

\* round(n / d) to the nearest integer, a tie to the even one, as round() does
RoundDiv(n, d) ==
  LET a == IF n >= 0 THEN n ELSE 0 - n
      q == a \div d
      rem == a % d
      m == IF 2 * rem > d THEN q + 1
           ELSE IF 2 * rem < d THEN q
           ELSE IF q % 2 = 0 THEN q ELSE q + 1
  IN IF n >= 0 THEN m ELSE 0 - m

\* round(x, 2) or round(x, 1) of x = n / d, as the pair <<., scale>>
Rounded(x, scale) == << RoundDiv(x[1] * scale, x[2]), scale >>

\* C13: decoding the frame that encode_sensor made of (temp, hum, cpu_temp)
\* gives (round(temp, 2), round(hum, 1), round(cpu_temp, 2)).
C13_RoundTrip ==
  data_bytes # None =>
    Decode(data_bytes) =
      [temp |-> Rounded(reading.temp, 100), hum |-> Rounded(reading.hum, 10),
       cpu |-> Rounded(reading.cpu, 100)]

\* C14: an AT exchange of a publish attempt that ends with ERROR or with the
\* timeout makes the attempt a failed one: mqtt_publish returns True only if
\* no exchange of the attempt it returns from ended that way.
C14_FailedExchangeFailsAttempt ==
  pub.result = "True" => ~pub.bad

\* C15: after every publish call, whatever it returned, main keeps that
\* pass's temp and hum as the last sent ones and goes on to the sleep at the
\* end of the pass; a later reading with the same temp and hum is not
\* published.
C15_UpdatedOnAttempt ==
  [][ /\ (At("main", "sent") /\ stack' # stack) =>
           /\ last_sent' = [temp |-> reading.temp, hum |-> reading.hum]
           /\ (At("main", "sleep"))'
      /\ (At("main", "compare")
            /\ reading.temp = last_sent.temp /\ reading.hum = last_sent.hum) =>
           ~(OnStack("mqtt_publish"))'
    ]_vars

\* all three attempts failed, the values were kept and the pass goes on
C15_Witness ==
  /\ At("main", "sleep")
  /\ pub.result = "False"
  /\ last_sent = [temp |-> reading.temp, hum |-> reading.hum]

\* C16: when an attempt of mqtt_publish is about to return True, the
\* statements it went through are, in this order, a publish command, the
\* write of the payload bytes, and a last command that waits for the
\* modem's answer to the publish.
C16_PublishOrder ==
  (At("mqtt_publish", "try") /\ Top.j > Len(PublishSteps(variant))) =>
    LET done == SubSeq(PublishSteps(variant), 1, Top.j - 1)
    IN \E w \in DOMAIN done :
         /\ done[w].kind = "write"
         /\ \E k \in 1..(w - 1) : done[k].kind = "at"
         /\ w < Len(done)
         /\ done[Len(done)].kind = "at"

\* C18: once a device has a record, update_loop goes on pushing it, interval
\* after interval, whatever the sink answers.  What a finite run can show of
\* it: while a device has a record the update_loop thread has not ended.
C18_ForwardingGoesOn ==
  (\E d \in Devices : HasRec(d)) => fpc # "dead"

\* C19: no exception leaves nb_iot_check_signal, whatever the modem sends:
\* it returns 0 or the integer it parsed.
C19_NeverPropagates ==
  /\ crashed # "check_signal"
  /\ At("main", "signal") => ret \in Int

\* C20, as claimed: for every reading nb_iot_check_signal returns, main
\* rebuilds the session exactly when nb_iot_wait_network would not accept
\* the reading, so main reads the sensor without a rebuild only on a reading
\* inside (0, 99).
C20_Complementary ==
  (variant = "sim7080g" /\ At("main", "read")) =>
    (Rebuilt <=> ~(rssi[1] > 0 /\ rssi[1] < 99))

\* C20, amended: the two tests are complementary for the readings 0 to 99;
\* on a negative reading or one above 99 main does not rebuild.
C20_ComplementaryInRange ==
  (variant = "sim7080g" /\ At("main", "read")) =>
    /\ rssi[1] \in 0..99 => (Rebuilt <=> ~(rssi[1] > 0 /\ rssi[1] < 99))
    /\ rssi[1] \notin 0..99 => ~Rebuilt

\* the pass goes on without a rebuild on the strongest reading accepted
C20_Witness ==
  /\ variant = "sim7080g"
  /\ At("main", "read")
  /\ rssi = << 98 >>
  /\ ~Rebuilt

\* C17: send_at writes the command once, leaves its loop only with OK or
\* ERROR in the buffer or with the timeout elapsed since the write, and
\* always terminates: once the timeout has elapsed, the next loop test
\* leaves the loop.
C17_SendAtTerminates ==
  [][ /\ (tpc = "test" /\ elapsed >= SendAtTimeout) => tpc' \in {"test", "return"}
      /\ (tpc # "return" /\ tpc' = "return") =>
           \/ Contains(response, << "O", "K" >>)
           \/ Contains(response, << "E", "R", "R", "O", "R" >>)
           \/ elapsed >= SendAtTimeout
      /\ writes' = IF tpc' = "write" THEN 0 ELSE 1
    ]_vars

====
